---- MODULE Spec2Model ----
(***************************************************************************)
(* A model of the food-ordering backend: the conversation store            *)
(* (ChatRepository / ChatService), the order store (OrderRepository /      *)
(* OrderService), the agent orchestrator (CustomerServiceAgent), the daily  *)
(* menu (DailyMenuRepository / DailyMenuService), the product catalogue     *)
(* (ProductRepository / ProductService) and the HTTP routes.               *)
(*                                                                         *)
(* Tables hold committed rows only.  A handler that awaits between a read  *)
(* and a write is split at the await where another request can interleave. *)
(***************************************************************************)
EXTENDS Integers, Sequences, FiniteSets, TLC

VARIABLES
    chat_session,   \* table chat_session: set of rows [id, user_phone, history]
    chat_last,      \* the last conversation-store call and what it returned
    orders,         \* table orders: sequence of rows, a row's id is its position
    order_items,    \* table order_items: sequence of rows, in insertion order
    products,       \* table product: set of rows [id, name, price, available,
                    \* embedding]
    product_last,   \* the last product-catalogue call and what it returned
    daily_menu,     \* table dailymenu: set of rows [id, product_id, stock, menu_date]
    menu_last,      \* the last daily-menu call and what it returned
    decreases,      \* the decrease_stock calls that run concurrently
    http_last,      \* the last HTTP request and the status it was answered with
    tx,             \* the open transaction of an OrderRepository.create in progress
    order_last,     \* the last order-store call and what it returned
    turns           \* the agent turns (get_agent_response calls) in progress

vars == <<chat_session, chat_last, orders, order_items, products,
          product_last, daily_menu, menu_last, decreases, http_last, tx,
          order_last, turns>>

chatVars == <<chat_session, chat_last>>
menuVars == <<daily_menu, menu_last, decreases>>
catalogVars == <<products, product_last, menuVars, http_last>>
orderVars == <<orders, order_items, catalogVars, tx, order_last>>

(***************************************************************************)
(* Bounds of the model.                                                    *)
(***************************************************************************)
MaxShort == 3        \* longest message list the repository-level calls pass
MaxOver == 1         \* how far past the service's cap a long list may reach
MaxQty == 2          \* largest quantity of an order item
MaxStock == 5        \* largest stock a menu entry is given
MaxDecrease == 3     \* largest quantity a decrease_stock call asks for
MaxMenuRows == 2     \* menu entries the model lets the table hold
MaxToolCalls == 1    \* create-order tool calls made by the LLM runs, all turns together

(***************************************************************************)
(* Program constants.                                                      *)
(***************************************************************************)
HistoryCap == 20          \* ChatService.get_history caps max_messages to 20
DefaultMaxMessages == 20  \* get_history's default max_messages

Phones == {"56911", "56922"}
BlankPhone == " "

\* str.strip() == "" for the phone values of the model.
IsBlank(s) == s \in {"", " ", "      "}

Max2(a, b) == IF a >= b THEN a ELSE b
Min2(a, b) == IF a <= b THEN a ELSE b

(***************************************************************************)
(* Messages.  A ModelMessage is modelled as the pair <<role, parts>>; its  *)
(* stored JSON form is the dict [role |-> .., parts |-> ..].  parts says   *)
(* which turn produced the message and, for a tool return, what the tool   *)
(* answered.                                                               *)
(***************************************************************************)
NoParts == [turn |-> "none", result |-> "none", code |-> "none"]

Msg(role, parts) == <<role, parts>>

\* pydantic_core.to_jsonable_python on one message / on the list.
MsgToJson(m) == [role |-> m[1], parts |-> m[2]]

ToJsonablePython(messages) ==
    [i \in 1..Len(messages) |-> MsgToJson(messages[i])]

\* ModelMessagesTypeAdapter.validate_python on the stored list.
ValidatePython(history) ==
    [i \in 1..Len(history) |-> <<history[i].role, history[i].parts>>]

\* dict.get("role"): None ("none") when the key is missing.
JsonGetRole(msg) == IF "role" \in DOMAIN msg THEN msg.role ELSE "none"

\* Python's seq[start:] for any integer start.
PySliceFrom(s, start) ==
    LET n == Len(s)
        from == IF start < 0 THEN Max2(n + start, 0) ELSE Min2(start, n)
    IN  SubSeq(s, from + 1, n)

(***************************************************************************)
(* chat_session table.                                                     *)
(***************************************************************************)
NoChat == [id |-> 0, user_phone |-> "", history |-> <<>>]

ChatRowsOf(table, user_phone) == {r \in table : r.user_phone = user_phone}

\* The id the database gives the next inserted row: one no row of the table
\* has.  (The sequence never hands an id out twice; only the identity of the
\* rows present matters here, so the least free id stands for it.)
NextChatId(table) ==
    CHOOSE i \in 1..(Cardinality(table) + 1) :
        /\ i \notin {r.id : r \in table}
        /\ \A j \in 1..(i - 1) : j \in {r.id : r \in table}

\* ChatRepository.get_by_phone: scalar_one_or_none() returns the row, None
\* when no row matches, and raises MultipleResultsFound when several do.
GetByPhone(table, user_phone) ==
    LET rows == ChatRowsOf(table, user_phone)
    IN  IF rows = {} THEN [kind |-> "none", row |-> NoChat]
        ELSE IF Cardinality(rows) = 1
             THEN [kind |-> "row", row |-> CHOOSE r \in rows : TRUE]
             ELSE [kind |-> "multiple", row |-> NoChat]

\* get_or_create's insert: ChatSession(user_phone=...) with history = [].
InsertChat(table, user_phone) ==
    table \cup {[id |-> NextChatId(table), user_phone |-> user_phone,
                 history |-> <<>>]}

\* A write that appends to the stored history instead of replacing it.
WriteHistory_Append(table, id, messages) ==
    {IF r.id = id
     THEN [r EXCEPT !.history = r.history \o ToJsonablePython(messages)]
     ELSE r : r \in table}

\* save_conversation's write: chat.history = to_jsonable_python(messages),
\* committed as an UPDATE of the row with chat's id.
WriteHistory(table, id, messages) ==
    {IF r.id = id THEN [r EXCEPT !.history = ToJsonablePython(messages)] ELSE r
       : r \in table}

Ok(value) == [status |-> "ok", value |-> value]
Raise(error) == [status |-> error, value |-> <<>>]

\* A scan that stops at the last message whose role is "user".
FirstUserIdx_Last(messages) ==
    IF \E i \in 1..Len(messages) : JsonGetRole(messages[i]) = "user"
    THEN (CHOOSE i \in 1..Len(messages) :
              /\ JsonGetRole(messages[i]) = "user"
              /\ \A j \in (i + 1)..Len(messages) :
                     JsonGetRole(messages[j]) # "user") - 1
    ELSE 0

\* The index (0-based) of the first stored message whose role is "user",
\* 0 when there is none: next((i for ...), 0).
FirstUserIdx(messages) ==
    IF \E i \in 1..Len(messages) : JsonGetRole(messages[i]) = "user"
    THEN (CHOOSE i \in 1..Len(messages) :
              /\ JsonGetRole(messages[i]) = "user"
              /\ \A j \in 1..(i - 1) : JsonGetRole(messages[j]) # "user") - 1
    ELSE 0

\* get_history truncating already at len(history) == max_messages.
RepoGetHistory_Strict(table, user_phone, max_messages) ==
    LET got == GetByPhone(table, user_phone)
        history == got.row.history
    IN  IF got.kind = "multiple" THEN Raise("MultipleResultsFound")
        ELSE IF got.kind = "none" THEN Ok(<<>>)
        ELSE IF Len(history) < max_messages THEN Ok(ValidatePython(history))
        ELSE LET messages == PySliceFrom(history, 0 - max_messages)
                 first_user_idx == FirstUserIdx(messages)
             IN  Ok(ValidatePython(PySliceFrom(messages, first_user_idx)))

\* ChatRepository.get_history.
RepoGetHistory(table, user_phone, max_messages) ==
    LET got == GetByPhone(table, user_phone)
        history == got.row.history
    IN  IF got.kind = "multiple" THEN Raise("MultipleResultsFound")
        ELSE IF got.kind = "none" THEN Ok(<<>>)
        ELSE IF Len(history) <= max_messages THEN Ok(ValidatePython(history))
        ELSE LET messages == PySliceFrom(history, 0 - max_messages)
                 first_user_idx == FirstUserIdx(messages)
             IN  Ok(ValidatePython(PySliceFrom(messages, first_user_idx)))

\* The service capping one message short of its limit.
ServiceGetHistory_CapShort(table, user_phone, max_messages) ==
    IF max_messages <= 0 THEN Ok(<<>>)
    ELSE IF IsBlank(user_phone) THEN Ok(<<>>)
    ELSE RepoGetHistory(table, user_phone, Min2(max_messages, HistoryCap - 1))

\* ChatService.get_history.
ServiceGetHistory(table, user_phone, max_messages) ==
    IF max_messages <= 0 THEN Ok(<<>>)
    ELSE IF IsBlank(user_phone) THEN Ok(<<>>)
    ELSE RepoGetHistory(table, user_phone, Min2(max_messages, HistoryCap))

\* ChatRepository.save_conversation run without interleaving: the table it
\* leaves and its outcome.
RepoSaveTable(table, user_phone, messages) ==
    LET got == GetByPhone(table, user_phone)
        created == IF got.kind = "none" THEN InsertChat(table, user_phone)
                   ELSE table
        chat == GetByPhone(created, user_phone).row
    IN  IF got.kind = "multiple" THEN table
        ELSE WriteHistory(created, chat.id, messages)

RepoSaveStatus(table, user_phone) ==
    IF GetByPhone(table, user_phone).kind = "multiple"
    THEN "MultipleResultsFound" ELSE "ok"

\* ChatService.save_conversation's validation: the error it raises, or "ok".
ServiceSaveCheck(user_phone, messages) ==
    IF IsBlank(user_phone) THEN "ValueError"
    ELSE IF messages = <<>> THEN "ValueError"
    ELSE "ok"

(***************************************************************************)
(* The inputs of the conversation-store calls.                             *)
(***************************************************************************)
\* The stored history is read only for role == "user" or not: two roles give
\* every case of it.
ChatMsgs == {Msg(r, NoParts) : r \in {"user", "assistant"}}

SeqsUpTo(S, n) == UNION {[1..k -> S] : k \in 0..n}

\* Every message list of at most MaxShort messages.
ShortLists == SeqsUpTo(ChatMsgs, MaxShort)

\* Lists around the service's cap: a pattern of one or two roles repeated.
Patterns == UNION {[1..k -> ChatMsgs] : k \in 1..2}

Repeat(pat, n) == [i \in 1..n |-> pat[((i - 1) % Len(pat)) + 1]]

LongLists ==
    {Repeat(pat, n) : pat \in Patterns,
                      n \in (HistoryCap - 1)..(HistoryCap + MaxOver)}

ServiceLists == SeqsUpTo(ChatMsgs, 1) \cup LongLists

ServicePhones == {"56911"}

ShortMaxes == 0..(MaxShort + 1)
ServiceMaxes == {0, 1} \cup ((HistoryCap - 1)..(HistoryCap + MaxOver + 1))

NoChatCall ==
    [op |-> "none", layer |-> "none", phone |-> "", max |-> 0, msgs |-> <<>>,
     found |-> FALSE, result |-> Ok(<<>>)]

ChatCall(op, layer, phone, max, msgs, found, result) ==
    [op |-> op, layer |-> layer, phone |-> phone, max |-> max, msgs |-> msgs,
     found |-> found, result |-> result]

(***************************************************************************)
(* Conversation-store calls, each run to completion.                       *)
(***************************************************************************)
\* ChatRepository.save_conversation(user_phone, messages)
RepoSaveConversation(phones, lists) ==
    \E user_phone \in phones, messages \in lists :
        /\ chat_session' = RepoSaveTable(chat_session, user_phone, messages)
        /\ chat_last' = ChatCall("save", "repo", user_phone, 0, messages, FALSE,
                                 Raise(RepoSaveStatus(chat_session, user_phone)))
        /\ UNCHANGED <<orderVars, turns>>

\* ChatRepository.get_history(user_phone, max_messages)
RepoGetHistoryCall(phones, maxes) ==
    \E user_phone \in phones, max_messages \in maxes :
        /\ chat_last' = ChatCall("get_history", "repo", user_phone, max_messages,
                                 <<>>, FALSE,
                                 RepoGetHistory(chat_session, user_phone,
                                                max_messages))
        /\ UNCHANGED <<chat_session, orderVars, turns>>

\* ChatService.save_conversation(user_phone, messages)
ServiceSaveConversation(phones, lists) ==
    \E user_phone \in phones, messages \in lists :
        LET check == ServiceSaveCheck(user_phone, messages)
        IN  /\ chat_session' =
                   IF check = "ok"
                   THEN RepoSaveTable(chat_session, user_phone, messages)
                   ELSE chat_session
            /\ chat_last' =
                   ChatCall("save", "service", user_phone, 0, messages, FALSE,
                            Raise(IF check = "ok"
                                  THEN RepoSaveStatus(chat_session, user_phone)
                                  ELSE check))
            /\ UNCHANGED <<orderVars, turns>>

\* ChatService.get_history(user_phone, max_messages)
ServiceGetHistoryCall(phones, maxes) ==
    \E user_phone \in phones, max_messages \in maxes :
        /\ chat_last' = ChatCall("get_history", "service", user_phone,
                                 max_messages, <<>>, FALSE,
                                 ServiceGetHistory(chat_session, user_phone,
                                                   max_messages))
        /\ UNCHANGED <<chat_session, orderVars, turns>>

\* ChatRepository.delete_session(user_phone)
DeleteSession(phones) ==
    \E user_phone \in phones :
        LET got == GetByPhone(chat_session, user_phone)
        IN  /\ chat_session' = IF got.kind = "row"
                               THEN chat_session \ {got.row} ELSE chat_session
            /\ chat_last' =
                   ChatCall("delete_session", "repo", user_phone, 0, <<>>,
                            got.kind = "row",
                            IF got.kind = "multiple"
                            THEN Raise("MultipleResultsFound") ELSE Ok(<<>>))
            /\ UNCHANGED <<orderVars, turns>>

(***************************************************************************)
(* Order store: tables, DTOs and the repository's steps.                   *)
(***************************************************************************)
NoProductCall ==
    [op |-> "none", product_id |-> 0, price |-> 0, only_available |-> FALSE,
     top_k |-> 0, rows |-> <<>>, status |-> "ok", result |-> <<>>]

NoHttpCall == [endpoint |-> "none", raised |-> "none", status_code |-> 0]

\* utils/nanoid.py: the alphabet and the default size of generate_order_code.
Alphabet == "0123456789abcdefghijklmnopqrstuvwxyz"
CodeSize == 6

\* nanoid's generate(alphabet, size): one character of the alphabet per
\* random index.
RECURSIVE Generate(_, _)
Generate(alphabet, picks) ==
    IF picks = <<>> THEN ""
    ELSE SubSeq(alphabet, picks[1], picks[1]) \o Generate(alphabet, Tail(picks))

\* The random indices two calls of generate draw (more than a code needs).
Draws ==
    {<<21, 4, 34, 10, 11, 2, 7, 7>>, <<1, 36, 27, 8, 23, 23, 5, 30>>}

\* A generate_order_code that returns one character more than asked.
GenerateOrderCode_OffByOne(size, draw) ==
    Generate(Alphabet, SubSeq(draw, 1, size + 1))

\* generate_order_code(size)
GenerateOrderCode(size, draw) == Generate(Alphabet, SubSeq(draw, 1, size))

\* Codes generate_order_code can return ("k3x9a1" and "0zq7mm").  A code
\* already used by a row violates the unique index of orders.order_code.
Codes == {GenerateOrderCode(CodeSize, draw) : draw \in Draws}

\* An embedding is a vector (two components here); <<>> is NULL, the value
\* of a row stored without one.
NullEmbedding == <<>>

\* The product table at start: product 1 exists, product 2 does not.
InitProducts ==
    {[id |-> 1, name |-> "empanada", price |-> 2, available |-> TRUE,
      embedding |-> <<1, 0>>]}

ProductIds == {1, 2}
Prices == {2}
TotalAmounts == {2, 4}
ItemCounts == 0..2
OrderPhones == {"56911"}

\* CreateOrderItemDTO values and lists of them.
ItemValues ==
    [product_id : ProductIds, quantity : 1..MaxQty, price_per_unit : Prices]

ItemLists == UNION {[1..k -> ItemValues] : k \in ItemCounts}

\* CreateOrderDTO values.
CreateOrderDTOs ==
    [customer_phone : OrderPhones, total_amount : TotalAmounts,
     items : ItemLists]

\* sum(quantity * price_per_unit) over a list of items.
RECURSIVE ItemsTotal(_)
ItemsTotal(items) ==
    IF items = <<>> THEN 0
    ELSE items[1].quantity * items[1].price_per_unit + ItemsTotal(Tail(items))

\* The order_items rows of one order, in table order.
ItemRowsOf(table, order_id) ==
    SelectSeq(table, LAMBDA r : r.order_id = order_id)

\* The OrderItems rows create / update_items build for order_id.
NewItemRows(order_id, items) ==
    [i \in 1..Len(items) |->
        [order_id |-> order_id, product_id |-> items[i].product_id,
         quantity |-> items[i].quantity,
         price_per_unit |-> items[i].price_per_unit]]

\* A row's DTO items back (what a caller passed for it).
RowItems(rows) ==
    [i \in 1..Len(rows) |->
        [product_id |-> rows[i].product_id, quantity |-> rows[i].quantity,
         price_per_unit |-> rows[i].price_per_unit]]

\* select(Orders).where(order_code == code).scalar_one_or_none(): the id of
\* the row, 0 for None (order_code is unique).
OrderIdByCode(table, order_code) ==
    IF \E i \in 1..Len(table) : table[i].order_code = order_code
    THEN CHOOSE i \in 1..Len(table) : table[i].order_code = order_code
    ELSE 0

\* The foreign key order_items.product_id -> product.id holds for the items.
ProductsExist(prods, items) ==
    \A i \in 1..Len(items) : \E p \in prods : p.id = items[i].product_id

ProductName(prods, product_id) ==
    (CHOOSE p \in prods : p.id = product_id).name

NoDetail ==
    [found |-> FALSE, order_id |-> 0, order_code |-> "", customer_phone |-> "",
     total_amount |-> 0, status |-> "", items |-> <<>>]

\* OrderRepository.get_detail_by_code: the order row with its item rows
\* joined to their products (an inner join: an item whose product row is
\* missing yields no row).
GetDetailByCode(ords, items, prods, order_code) ==
    LET order_id == OrderIdByCode(ords, order_code)
        joined == SelectSeq(ItemRowsOf(items, order_id),
                            LAMBDA r : \E p \in prods : p.id = r.product_id)
    IN  IF order_id = 0 THEN NoDetail
        ELSE [found |-> TRUE, order_id |-> order_id,
              order_code |-> ords[order_id].order_code,
              customer_phone |-> ords[order_id].customer_phone,
              total_amount |-> ords[order_id].total_amount,
              status |-> ords[order_id].status,
              items |-> [i \in 1..Len(joined) |->
                           [product_id |-> joined[i].product_id,
                            product_name |-> ProductName(prods, joined[i].product_id),
                            quantity |-> joined[i].quantity,
                            price_per_unit |-> joined[i].price_per_unit,
                            subtotal |-> joined[i].quantity
                                           * joined[i].price_per_unit]]]

\* OrderRepository.get_by_code: None or get_detail_by_code's DTO.
GetByCode(ords, items, prods, order_code) ==
    GetDetailByCode(ords, items, prods, order_code)

\* The Orders row create builds: total_amount is the DTO's field, status the
\* column default "pending", order_code the generated code.
NewOrderRow(order_data, order_code) ==
    [order_code |-> order_code, customer_phone |-> order_data.customer_phone,
     total_amount |-> order_data.total_amount, status |-> "pending"]

\* OrderService.create_order's check before it delegates.
ServiceCreateCheck(order_data) ==
    IF order_data.items = <<>> THEN "ValueError" ELSE "ok"

\* session.add(order); flush(): the INSERT of the order row inside the open
\* transaction.  It fails on a used order_code.
FlushStatus(ords, order_code) ==
    IF OrderIdByCode(ords, order_code) # 0 THEN "IntegrityError" ELSE "ok"

\* session.commit() of create: the item INSERTs are flushed and the
\* transaction commits, or a missing product fails it and it rolls back.
CommitStatus(prods, order_data) ==
    IF ProductsExist(prods, order_data.items) THEN "ok" ELSE "IntegrityError"

\* The whole of OrderService.create_order -> OrderRepository.create.
CreateStatus(ords, prods, order_data, order_code) ==
    IF ServiceCreateCheck(order_data) # "ok" THEN ServiceCreateCheck(order_data)
    ELSE IF FlushStatus(ords, order_code) # "ok"
         THEN FlushStatus(ords, order_code)
    ELSE CommitStatus(prods, order_data)

\* create got past the service's check and the flush: its commit is next.
CreateReachesCommit(ords, order_data, order_code) ==
    ServiceCreateCheck(order_data) = "ok" /\ FlushStatus(ords, order_code) = "ok"

\* A commit that keeps the order row when an item INSERT fails.
OrdersAfterCommit_Partial(ords, prods, order_data, order_code) ==
    Append(ords, NewOrderRow(order_data, order_code))

\* The orders table after create's commit (or its rollback).
OrdersAfterCommit(ords, prods, order_data, order_code) ==
    IF CommitStatus(prods, order_data) = "ok"
    THEN Append(ords, NewOrderRow(order_data, order_code))
    ELSE ords

\* The order_items table after create's commit (or its rollback).
ItemsAfterCommit(ords, items, prods, order_data) ==
    IF CommitStatus(prods, order_data) = "ok"
    THEN items \o NewItemRows(Len(ords) + 1, order_data.items)
    ELSE items

NoOrderCall ==
    [op |-> "none", order_code |-> "", status |-> "ok", committed |-> FALSE,
     items |-> <<>>, new_status |-> ""]

\* What is kept of a call: its outcome and, when it committed, the items the
\* caller passed.
OrderCall(op, order_code, status, committed, items) ==
    [op |-> op, order_code |-> order_code, status |-> status,
     committed |-> committed, items |-> IF committed THEN items ELSE <<>>,
     new_status |-> ""]

NoOrderData == [customer_phone |-> "", total_amount |-> 0, items |-> <<>>]

NoTx == [open |-> FALSE, order_code |-> "", order_data |-> NoOrderData]

\* Inputs of the create whose flush and commit are separate steps.
TxItemValues == [product_id : ProductIds, quantity : {1}, price_per_unit : Prices]

TxItemLists == UNION {[1..k -> TxItemValues] : k \in ItemCounts}

TxOrderDTOs ==
    [customer_phone : OrderPhones, total_amount : {2}, items : TxItemLists]

BlankCode == "      "

(***************************************************************************)
(* Order-store calls.                                                      *)
(***************************************************************************)
\* OrderService.create_order -> OrderRepository.create, run to completion.
\* A create whose order_code an open transaction has inserted waits for that
\* transaction (the unique index), so it is not enabled until then.
CreateOrder(dtos) ==
    \E order_data \in dtos, order_code \in Codes :
        LET reached == CreateReachesCommit(orders, order_data, order_code)
            status == CreateStatus(orders, products, order_data, order_code)
        IN  /\ ~(tx.open /\ tx.order_code = order_code)
            /\ orders' = IF reached
                         THEN OrdersAfterCommit(orders, products, order_data,
                                                order_code)
                         ELSE orders
            /\ order_items' = IF reached
                              THEN ItemsAfterCommit(orders, order_items,
                                                    products, order_data)
                              ELSE order_items
            \* refresh(order), then get_detail_by_code: None raises ValueError
            /\ order_last' =
                   OrderCall("create",
                             IF status = "ok" THEN order_code ELSE "",
                             IF status = "ok"
                                /\ ~GetDetailByCode(orders', order_items',
                                                    products, order_code).found
                             THEN "ValueError" ELSE status,
                             status = "ok", order_data.items)
            /\ UNCHANGED <<catalogVars, tx, chatVars, turns>>

\* create up to and including flush(): the order row is inserted in the
\* transaction, not yet committed; or the call ends with the error.
CreateFlush(dtos) ==
    \E order_data \in dtos, order_code \in Codes :
        LET checked == ServiceCreateCheck(order_data)
            flushed == FlushStatus(orders, order_code)
        IN  /\ ~tx.open
            /\ IF checked = "ok" /\ flushed = "ok"
               THEN /\ tx' = [open |-> TRUE, order_code |-> order_code,
                              order_data |-> order_data]
                    /\ UNCHANGED order_last
               ELSE /\ order_last' =
                           OrderCall("create", "",
                                     IF checked # "ok" THEN checked ELSE flushed,
                                     FALSE, <<>>)
                    /\ UNCHANGED tx
            /\ UNCHANGED <<orders, order_items, catalogVars, chatVars, turns>>

\* create from the item rows to commit(): everything is committed, or the
\* failing item INSERT rolls everything back.
CreateCommit ==
    /\ tx.open
    /\ orders' = OrdersAfterCommit(orders, products, tx.order_data,
                                   tx.order_code)
    /\ order_items' = ItemsAfterCommit(orders, order_items, products,
                                       tx.order_data)
    /\ order_last' =
           LET status == CommitStatus(products, tx.order_data)
           IN  OrderCall("create", IF status = "ok" THEN tx.order_code ELSE "",
                         status, status = "ok", tx.order_data.items)
    /\ tx' = NoTx
    /\ UNCHANGED <<catalogVars, chatVars, turns>>

\* update_items assigns the new total to the OrderDetailDTO get_by_code
\* returned, which no session tracks: the orders row keeps its total.
OrdersAfterUpdateItems(ords, order_id, total_amount) == ords

\* update_items' delete of the old rows and add of the new ones.
ItemsAfterUpdateItems(items, order_id, new_items) ==
    SelectSeq(items, LAMBDA r : r.order_id # order_id)
        \o NewItemRows(order_id, new_items)

\* The error update_order_items ends with.  With the order found and the
\* items committed, refresh(order) is handed the DTO and raises.
UpdateItemsStatus(ords, items, prods, order_code, new_items) ==
    IF IsBlank(order_code) THEN "ValueError"
    ELSE IF new_items = <<>> THEN "ValueError"
    ELSE IF ~GetByCode(ords, items, prods, order_code).found THEN "LookupError"
    ELSE IF ~ProductsExist(prods, new_items) THEN "IntegrityError"
    ELSE "UnmappedInstanceError"

\* OrderService.update_order_items -> OrderRepository.update_items.
UpdateOrderItems(codes, lists) ==
    \E order_code \in codes, new_items \in lists :
        LET status == UpdateItemsStatus(orders, order_items, products,
                                        order_code, new_items)
            committed == status = "UnmappedInstanceError"
            order == GetByCode(orders, order_items, products, order_code)
        IN  /\ order_items' = IF committed
                              THEN ItemsAfterUpdateItems(order_items,
                                                         order.order_id,
                                                         new_items)
                              ELSE order_items
            /\ orders' = IF committed
                         THEN OrdersAfterUpdateItems(orders, order.order_id,
                                                     ItemsTotal(new_items))
                         ELSE orders
            /\ order_last' = OrderCall("update_items", order_code, status,
                                       committed, new_items)
            /\ UNCHANGED <<catalogVars, tx, chatVars, turns>>


\* The statuses update_order_status is called with: two of OrderStatusEnum
\* and a blank string.
NewStatuses == {"in_process", "delivered", " "}

\* update_status assigns the new status to the OrderDetailDTO get_by_code
\* returned, which no session tracks: the orders row keeps its status.
OrdersAfterUpdateStatus(ords, order_id, new_status) == ords

\* An update_status without its `if order:` test.
RepoUpdateStatus_NoTest(ords, items, prods, order_code, new_status) ==
    LET order == GetByCode(ords, items, prods, order_code)
    IN  IF ~order.found
        THEN [returned |-> "raised", error |-> "AttributeError", orders |-> ords]
        ELSE [returned |-> "raised", error |-> "UnmappedInstanceError",
              orders |-> OrdersAfterUpdateStatus(ords, order.order_id,
                                                 new_status)]

\* OrderRepository.update_status: None for a code get_by_code does not find;
\* otherwise the assignment, commit(), and refresh(order), which is handed
\* the DTO and raises.
RepoUpdateStatus(ords, items, prods, order_code, new_status) ==
    LET order == GetByCode(ords, items, prods, order_code)
    IN  IF ~order.found
        THEN [returned |-> "none", error |-> "none", orders |-> ords]
        ELSE [returned |-> "raised", error |-> "UnmappedInstanceError",
              orders |-> OrdersAfterUpdateStatus(ords, order.order_id,
                                                 new_status)]

\* OrderService.update_order_status's checks before it delegates.
ServiceUpdateStatusCheck(order_code, new_status) ==
    IF IsBlank(order_code) THEN "ValueError"
    ELSE IF IsBlank(new_status) THEN "ValueError"
    ELSE "ok"

\* OrderService.update_order_status -> OrderRepository.update_status.
UpdateOrderStatus(codes, statuses) ==
    \E order_code \in codes, new_status \in statuses :
        LET checked == ServiceUpdateStatusCheck(order_code, new_status)
            done == RepoUpdateStatus(orders, order_items, products,
                                     order_code, new_status)
            status == IF checked # "ok" THEN checked
                      ELSE IF done.returned = "none" THEN "LookupError"
                      ELSE IF done.returned = "raised" THEN done.error
                      ELSE "ok"
        IN  /\ orders' = IF checked = "ok" THEN done.orders ELSE orders
            /\ order_last' =
                   [OrderCall("update_status", order_code, status,
                              checked = "ok" /\ done.returned # "none", <<>>)
                    EXCEPT !.new_status = new_status]
            /\ UNCHANGED <<order_items, catalogVars, tx, chatVars, turns>>

\* OrderRepository.delete: False for a code get_by_code does not find;
\* otherwise session.delete(order), which is handed the OrderDetailDTO of
\* get_by_code and raises before anything is marked for deletion.
RepoDelete(ords, items, prods, order_code) ==
    LET order == GetByCode(ords, items, prods, order_code)
    IN  IF ~order.found
        THEN [returned |-> "False", error |-> "none", orders |-> ords,
              order_items |-> items]
        ELSE [returned |-> "raised", error |-> "UnmappedInstanceError",
              orders |-> ords, order_items |-> items]

\* OrderService.delete_order -> OrderRepository.delete.
DeleteOrder(codes) ==
    \E order_code \in codes :
        LET done == RepoDelete(orders, order_items, products, order_code)
            status == IF IsBlank(order_code) THEN "ValueError"
                      ELSE IF done.returned = "raised" THEN done.error
                      ELSE done.returned
        IN  /\ orders' = IF IsBlank(order_code) THEN orders ELSE done.orders
            /\ order_items' = IF IsBlank(order_code) THEN order_items
                              ELSE done.order_items
            /\ order_last' = OrderCall("delete", order_code, status, FALSE,
                                       <<>>)
            /\ UNCHANGED <<catalogVars, tx, chatVars, turns>>

(***************************************************************************)
(* Product catalogue: table product, ProductRepository and ProductService.  *)
(***************************************************************************)
CatalogProductIds == {0, 1, 2}
ProductNames == {"empanada", "latte"}
ProductPrices == {3}
QueryEmbeddings == {<<>>, <<1, 0>>, <<1, 1>>}
TopKs == {1, 2}

\* embedder.embed_query(text).embeddings[0]: the vector of a product's name
\* and description, a function of the text.
EmbedQuery(text) == IF text = "empanada" THEN <<1, 0>> ELSE <<1, 1>>

\* CreateProductDTO values.
CreateProductDTOs ==
    [name : ProductNames, price : ProductPrices, available : BOOLEAN]

Dot(a, b) == a[1] * b[1] + a[2] * b[2]

\* 1 - (embedding <=> query), the cosine similarity, in hundredths.  The
\* vectors of the model have no negative component, so the square of the
\* cosine orders them as the cosine does.  NULL for a NULL embedding, which
\* DESC puts first: 101.
SimilarityScore(embedding, query) ==
    IF embedding = NullEmbedding THEN 101
    ELSE (Dot(embedding, query) * Dot(embedding, query) * 100)
             \div (Dot(embedding, embedding) * Dot(query, query))

\* The sequences that hold each row of a set once.
Orderings(rows) ==
    {f \in [1..Cardinality(rows) -> rows] :
        \A i, j \in 1..Cardinality(rows) : i # j => f[i] # f[j]}

\* A semantic_search statement without its WHERE available.
SearchRows_Unfiltered(prods, query, top_k, only_available) ==
    {SubSeq(f, 1, Min2(top_k, Len(f))) :
        f \in {g \in Orderings(prods) :
                 \A i \in 1..(Len(g) - 1) :
                     SimilarityScore(g[i].embedding, query)
                         >= SimilarityScore(g[i + 1].embedding, query)}}

\* The rows semantic_search's statement can yield: WHERE available when
\* only_available, ORDER BY similarity_score DESC (rows of equal score in any
\* order), LIMIT top_k.
SearchRows(prods, query, top_k, only_available) ==
    LET candidates == IF only_available THEN {p \in prods : p.available}
                      ELSE prods
    IN  {SubSeq(f, 1, Min2(top_k, Len(f))) :
            f \in {g \in Orderings(candidates) :
                     \A i \in 1..(Len(g) - 1) :
                         SimilarityScore(g[i].embedding, query)
                             >= SimilarityScore(g[i + 1].embedding, query)}}

\* [ProductSearchResultDTO(**dict(row)) for row in ...]: the statement labels
\* the id column "id" and the DTO requires product_id, so the DTO of any row
\* fails validation; only the empty result converts.
SearchResult(rows) ==
    IF rows = <<>> THEN Ok(<<>>) ELSE Raise("ValidationError")

\* ProductService.product_vector_search's checks before it delegates.
ServiceSearchCheck(query, top_k) ==
    IF query = <<>> THEN "ValueError"
    ELSE IF top_k <= 0 THEN "ValueError"
    ELSE "ok"

ProductById(prods, product_id) == {p \in prods : p.id = product_id}

\* ProductService.update_product_availability ->
\* ProductRepository.update_availability.
AvailabilityStatus(prods, product_id) ==
    IF product_id <= 0 THEN "ValueError"
    ELSE IF ProductById(prods, product_id) = {} THEN "LookupError"
    ELSE "ok"

\* ProductService.update_product_data -> ProductRepository.update:
\* session.add of a new Product object with the id set is an INSERT, refused
\* for an id or a name (unique) that a row holds.
UpdateDataStatus(prods, product_id, product_data) ==
    IF product_id <= 0 THEN "ValueError"
    ELSE IF ProductById(prods, product_id) # {} THEN "IntegrityError"
    ELSE IF \E p \in prods : p.name = product_data.name THEN "IntegrityError"
    ELSE "ok"

\* product.available = available; commit()
ProductsAfterAvailability(prods, product_id, available) ==
    IF AvailabilityStatus(prods, product_id) = "ok"
    THEN {IF p.id = product_id THEN [p EXCEPT !.available = available] ELSE p :
             p \in prods}
    ELSE prods

\* session.add(product); commit(): the row is inserted without an embedding.
ProductsAfterUpdateData(prods, product_id, product_data) ==
    IF UpdateDataStatus(prods, product_id, product_data) = "ok"
    THEN prods \cup {[id |-> product_id, name |-> product_data.name,
                      price |-> product_data.price,
                      available |-> product_data.available,
                      embedding |-> NullEmbedding]}
    ELSE prods

ProductCall(op, product_id, price, status) ==
    [NoProductCall EXCEPT !.op = op, !.product_id = product_id,
                          !.price = price, !.status = status]

\* PATCH /products/{id}/availability at the service.
UpdateProductAvailability ==
    \E product_id \in CatalogProductIds, available \in BOOLEAN :
        LET status == AvailabilityStatus(products, product_id)
        IN  /\ products' = ProductsAfterAvailability(products, product_id,
                                                     available)
            /\ product_last' =
                   ProductCall("update_availability", product_id, 0, status)
            /\ UNCHANGED <<menuVars, http_last, orders, order_items, tx,
                           order_last, chatVars, turns>>

\* An update of a product's data that rewrites the price of the order items
\* of the product.
UpdateProductData_Reprices ==
    \E product_id \in CatalogProductIds, product_data \in CreateProductDTOs :
        /\ products' = ProductsAfterUpdateData(products, product_id,
                                               product_data)
        /\ product_last' =
               ProductCall("update_data", product_id, product_data.price,
                           UpdateDataStatus(products, product_id, product_data))
        /\ order_items' =
               [i \in 1..Len(order_items) |->
                   IF order_items[i].product_id = product_id
                   THEN [order_items[i] EXCEPT
                            !.price_per_unit = product_data.price]
                   ELSE order_items[i]]
        /\ UNCHANGED <<menuVars, http_last, orders, tx, order_last, chatVars,
                       turns>>

\* PUT /products/{id} at the service.
UpdateProductData ==
    \E product_id \in CatalogProductIds, product_data \in CreateProductDTOs :
        LET status == UpdateDataStatus(products, product_id, product_data)
        IN  /\ products' = ProductsAfterUpdateData(products, product_id,
                                                   product_data)
            /\ product_last' =
                   ProductCall("update_data", product_id, product_data.price,
                               status)
            /\ UNCHANGED <<menuVars, http_last, orders, order_items, tx,
                           order_last, chatVars, turns>>

\* ProductService.product_vector_search -> ProductRepository.semantic_search.
ProductVectorSearch ==
    \E query \in QueryEmbeddings, top_k \in TopKs, only_available \in BOOLEAN :
        LET checked == ServiceSearchCheck(query, top_k)
        IN  /\ \E rows \in IF checked = "ok"
                           THEN SearchRows(products, query, top_k,
                                           only_available)
                           ELSE {<<>>} :
                   product_last' =
                       [NoProductCall EXCEPT
                           !.op = "semantic_search",
                           !.only_available = only_available,
                           !.top_k = top_k,
                           !.rows = rows,
                           !.status = IF checked # "ok" THEN checked
                                      ELSE SearchResult(rows).status,
                           !.result = IF checked # "ok" THEN <<>>
                                      ELSE SearchResult(rows).value]
            /\ UNCHANGED <<products, menuVars, http_last, orders, order_items,
                           tx, order_last, chatVars, turns>>


(***************************************************************************)
(* HTTP routes: routes/product_routes.py and routes/order_routes.py.  A     *)
(* handler calls its service method and maps the exception it catches to an *)
(* HTTPException; an exception it does not catch is answered 500.  Of a     *)
(* request, http_last keeps the endpoint, the exception and the status.     *)
(***************************************************************************)
\* ValueError and its subclasses (pydantic's ValidationError is one).
IsValueError(raised) == raised \in {"ValueError", "ValidationError"}

\* The except clauses of get_product_by_id, update_product_availability and
\* update_product_data.
ProductRouteStatus(raised) ==
    IF raised = "ok" THEN 200
    ELSE IF IsValueError(raised) THEN 404
    ELSE IF raised = "LookupError" THEN 400
    ELSE 500

\* The except clauses of the order routes that catch both errors.
OrderRouteStatus(raised) ==
    IF raised = "ok" THEN 200
    ELSE IF IsValueError(raised) THEN 400
    ELSE IF raised = "LookupError" THEN 404
    ELSE 500

HttpCall(endpoint, raised, status_code) ==
    [endpoint |-> endpoint, raised |-> raised, status_code |-> status_code]

OrderIds == 0..2

\* ProductService.get_product_by_id
GetProductStatus(prods, product_id) ==
    IF product_id <= 0 THEN "ValueError"
    ELSE IF ProductById(prods, product_id) = {} THEN "LookupError"
    ELSE "ok"

\* OrderService.get_order_by_id -> OrderRepository.get_by_id
GetOrderByIdStatus(ords, order_id) ==
    IF order_id <= 0 THEN "ValueError"
    ELSE IF order_id > Len(ords) THEN "LookupError"
    ELSE "ok"

\* GET /products/{product_id}
HttpGetProductById ==
    \E product_id \in CatalogProductIds :
        LET raised == GetProductStatus(products, product_id)
        IN  /\ http_last' = HttpCall("GET /products/{product_id}", raised,
                                     ProductRouteStatus(raised))
            /\ UNCHANGED <<products, product_last, menuVars, orders,
                           order_items, tx, order_last, chatVars, turns>>

\* PATCH /products/{product_id}/availability
HttpUpdateProductAvailability ==
    \E product_id \in CatalogProductIds, available \in BOOLEAN :
        LET raised == AvailabilityStatus(products, product_id)
        IN  /\ products' = ProductsAfterAvailability(products, product_id,
                                                     available)
            /\ http_last' =
                   HttpCall("PATCH /products/{product_id}/availability",
                            raised, ProductRouteStatus(raised))
            /\ UNCHANGED <<product_last, menuVars, orders, order_items, tx,
                           order_last, chatVars, turns>>

\* PUT /products/{product_id}
HttpUpdateProductData ==
    \E product_id \in CatalogProductIds, product_data \in CreateProductDTOs :
        LET raised == UpdateDataStatus(products, product_id, product_data)
        IN  /\ products' = ProductsAfterUpdateData(products, product_id,
                                                   product_data)
            /\ http_last' = HttpCall("PUT /products/{product_id}", raised,
                                     ProductRouteStatus(raised))
            /\ UNCHANGED <<product_last, menuVars, orders, order_items, tx,
                           order_last, chatVars, turns>>

\* GET /orders/{order_id}
HttpGetOrderById ==
    \E order_id \in OrderIds :
        LET raised == GetOrderByIdStatus(orders, order_id)
        IN  /\ http_last' = HttpCall("GET /orders/{order_id}", raised,
                                     OrderRouteStatus(raised))
            /\ UNCHANGED <<products, product_last, menuVars, orders,
                           order_items, tx, order_last, chatVars, turns>>

\* PATCH /orders/{order_code}/status/
HttpUpdateOrderStatus ==
    \E order_code \in Codes \cup {BlankCode},
       new_status \in NewStatuses \ {" "} :
        LET checked == ServiceUpdateStatusCheck(order_code, new_status)
            done == RepoUpdateStatus(orders, order_items, products,
                                     order_code, new_status)
            raised == IF checked # "ok" THEN checked
                      ELSE IF done.returned = "none" THEN "LookupError"
                      ELSE IF done.returned = "raised" THEN done.error
                      ELSE "ok"
        IN  /\ orders' = IF checked = "ok" THEN done.orders ELSE orders
            /\ http_last' = HttpCall("PATCH /orders/{order_code}/status/",
                                     raised, OrderRouteStatus(raised))
            /\ UNCHANGED <<order_items, products, product_last, menuVars, tx,
                           order_last, chatVars, turns>>


(***************************************************************************)
(* Daily menu: table dailymenu, DailyMenuRepository and DailyMenuService.   *)
(* A date is its day number; Today is date.today().                        *)
(***************************************************************************)
Today == 1

MenuDates == {Today - 1, Today, Today + 1}
MenuProductIds == {0, 1, 2}
AddStocks == {0, MaxDecrease, MaxStock}
NewStocks == {0 - 1, 0, MaxStock}
Quantities == {0, MaxDecrease}

\* select(DailyMenu).where(product_id == ..., menu_date == ...)
MenuRowsOf(table, product_id, menu_date) ==
    {r \in table : r.product_id = product_id /\ r.menu_date = menu_date}

NoMenuRow == [id |-> 0, product_id |-> 0, stock |-> 0, menu_date |-> 0]

\* ...scalar_one_or_none(): None, the row, or MultipleResultsFound (the table
\* has no unique constraint on (product_id, menu_date)).
GetMenuItem(table, product_id, menu_date) ==
    LET rows == MenuRowsOf(table, product_id, menu_date)
    IN  IF rows = {} THEN [kind |-> "none", row |-> NoMenuRow]
        ELSE IF Cardinality(rows) = 1
             THEN [kind |-> "row", row |-> CHOOSE r \in rows : TRUE]
        ELSE [kind |-> "multiple", row |-> NoMenuRow]

\* The id the next INSERT gets: the least id no row holds (a fresh id, kept
\* small).
NextMenuId(table) ==
    CHOOSE i \in 1..(Cardinality(table) + 1) : \A r \in table : r.id # i

\* The foreign key dailymenu.product_id -> product.id.
MenuProductExists(prods, product_id) == \E p \in prods : p.id = product_id

\* DailyMenuService.add_menu_item's checks, then DailyMenuRepository.create's
\* commit.
AddMenuItemStatus(prods, product_id, stock, menu_date) ==
    IF stock <= 0 THEN "ValueError"
    ELSE IF menu_date < Today THEN "ValueError"
    ELSE IF product_id <= 0 THEN "ValueError"
    ELSE IF ~MenuProductExists(prods, product_id) THEN "IntegrityError"
    ELSE "ok"

\* A decrease that does not compare the quantity with the stock.
RepoDecreaseStock_Unchecked(table, product_id, menu_date, quantity) ==
    LET got == GetMenuItem(table, product_id, menu_date)
    IN  IF got.kind = "multiple"
        THEN [returned |-> "raised", table |-> table, stock |-> 0]
        ELSE IF got.kind = "none"
        THEN [returned |-> "none", table |-> table, stock |-> 0]
        ELSE [returned |-> "dto",
              table |-> (table \ {got.row})
                            \cup {[got.row EXCEPT !.stock = @ - quantity]},
              stock |-> got.row.stock - quantity]

\* A decrease that writes the quantity instead of the difference.
RepoDecreaseStock_SetsQuantity(table, product_id, menu_date, quantity) ==
    LET got == GetMenuItem(table, product_id, menu_date)
    IN  IF got.kind = "multiple"
        THEN [returned |-> "raised", table |-> table, stock |-> 0]
        ELSE IF got.kind = "none" \/ got.row.stock < quantity
        THEN [returned |-> "none", table |-> table, stock |-> 0]
        ELSE [returned |-> "dto",
              table |-> (table \ {got.row})
                            \cup {[got.row EXCEPT !.stock = quantity]},
              stock |-> quantity]

\* DailyMenuRepository.decrease_stock: what it returns (a DTO, None, or the
\* exception of scalar_one_or_none), the table afterwards and the stock the
\* DTO carries.
RepoDecreaseStock(table, product_id, menu_date, quantity) ==
    LET got == GetMenuItem(table, product_id, menu_date)
    IN  IF got.kind = "multiple"
        THEN [returned |-> "raised", table |-> table, stock |-> 0]
        ELSE IF got.kind = "none" \/ got.row.stock < quantity
        THEN [returned |-> "none", table |-> table, stock |-> 0]
        ELSE [returned |-> "dto",
              table |-> (table \ {got.row})
                            \cup {[got.row EXCEPT !.stock = @ - quantity]},
              stock |-> got.row.stock - quantity]

\* DailyMenuRepository.update_stock.
RepoUpdateStock(table, product_id, menu_date, new_stock) ==
    LET got == GetMenuItem(table, product_id, menu_date)
    IN  IF got.kind = "multiple"
        THEN [returned |-> "raised", table |-> table, stock |-> 0]
        ELSE IF got.kind = "none"
        THEN [returned |-> "none", table |-> table, stock |-> 0]
        ELSE [returned |-> "dto",
              table |-> (table \ {got.row})
                            \cup {[got.row EXCEPT !.stock = new_stock]},
              stock |-> new_stock]

\* What the service makes of the repository's answer: None is a ValueError.
MenuServiceStatus(returned) ==
    IF returned = "dto" THEN "ok"
    ELSE IF returned = "none" THEN "ValueError"
    ELSE "MultipleResultsFound"

NoMenuCall ==
    [op |-> "none", product_id |-> 0, menu_date |-> 0, quantity |-> 0,
     returned |-> "not_called", status |-> "ok", stock |-> 0]

MenuCall(op, product_id, menu_date, quantity, returned, status, stock) ==
    [op |-> op, product_id |-> product_id, menu_date |-> menu_date,
     quantity |-> quantity, returned |-> returned, status |-> status,
     stock |-> stock]

\* DailyMenuService.add_menu_item -> DailyMenuRepository.create.
AddMenuItem ==
    \E product_id \in MenuProductIds, stock \in AddStocks,
       menu_date \in MenuDates :
        LET status == AddMenuItemStatus(products, product_id, stock, menu_date)
        IN  /\ Cardinality(daily_menu) < MaxMenuRows
            /\ daily_menu' =
                   IF status = "ok"
                   THEN daily_menu \cup
                            {[id |-> NextMenuId(daily_menu),
                              product_id |-> product_id, stock |-> stock,
                              menu_date |-> menu_date]}
                   ELSE daily_menu
            /\ menu_last' =
                   MenuCall("add_menu_item", product_id, menu_date, stock,
                            IF status = "ok" THEN "dto"
                            ELSE IF status = "ValueError" THEN "not_called"
                            ELSE "raised",
                            status, IF status = "ok" THEN stock ELSE 0)
            /\ UNCHANGED <<products, product_last, http_last, orders,
                           order_items, tx, order_last, chatVars, turns,
                           decreases>>

\* An update_stock without the service's test of new_stock.
UpdateStock_Unvalidated ==
    \E product_id \in MenuProductIds, menu_date \in MenuDates,
       new_stock \in NewStocks :
        LET done == RepoUpdateStock(daily_menu, product_id, menu_date,
                                    new_stock)
        IN  /\ daily_menu' = done.table
            /\ menu_last' =
                   MenuCall("update_stock", product_id, menu_date, new_stock,
                            done.returned, MenuServiceStatus(done.returned),
                            done.stock)
            /\ UNCHANGED <<products, product_last, http_last, orders,
                           order_items, tx, order_last, chatVars, turns,
                           decreases>>

\* DailyMenuService.update_stock -> DailyMenuRepository.update_stock.
UpdateStock ==
    \E product_id \in MenuProductIds, menu_date \in MenuDates,
       new_stock \in NewStocks :
        LET done == RepoUpdateStock(daily_menu, product_id, menu_date,
                                    new_stock)
        IN  /\ daily_menu' = IF new_stock < 0 THEN daily_menu ELSE done.table
            /\ menu_last' =
                   IF new_stock < 0
                   THEN MenuCall("update_stock", product_id, menu_date,
                                 new_stock, "not_called", "ValueError", 0)
                   ELSE MenuCall("update_stock", product_id, menu_date,
                                 new_stock, done.returned,
                                 MenuServiceStatus(done.returned), done.stock)
            /\ UNCHANGED <<products, product_last, http_last, orders,
                           order_items, tx, order_last, chatVars, turns,
                           decreases>>

\* DailyMenuService.decrease_stock -> DailyMenuRepository.decrease_stock.
DecreaseStock ==
    \E product_id \in MenuProductIds, menu_date \in MenuDates,
       quantity \in Quantities :
        LET done == RepoDecreaseStock(daily_menu, product_id, menu_date,
                                      quantity)
        IN  /\ daily_menu' = IF quantity <= 0 THEN daily_menu ELSE done.table
            /\ menu_last' =
                   IF quantity <= 0
                   THEN MenuCall("decrease_stock", product_id, menu_date,
                                 quantity, "not_called", "ValueError", 0)
                   ELSE MenuCall("decrease_stock", product_id, menu_date,
                                 quantity, done.returned,
                                 MenuServiceStatus(done.returned), done.stock)
            /\ UNCHANGED <<products, product_last, http_last, orders,
                           order_items, tx, order_last, chatVars, turns,
                           decreases>>


\* The ids of menu entries a caller may name.
MenuIds == 0..MaxMenuRows

\* What a delete of the rows `found` leaves and returns: session.delete of
\* each row and commit() when there is one, False otherwise.
DeleteMenuRows(table, found) ==
    [returned |-> IF found # {} THEN "True" ELSE "False",
     table |-> table \ found]

\* DailyMenuService.delete_menu_item -> DailyMenuRepository.delete_menu_item.
DeleteMenuItem ==
    \E menu_id \in MenuIds, item_id \in MenuProductIds,
       menu_date \in MenuDates :
        LET found == {r \in daily_menu : /\ r.id = menu_id
                                         /\ r.product_id = item_id
                                         /\ r.menu_date = menu_date}
            done == DeleteMenuRows(daily_menu, found)
            rejected == menu_id <= 0 \/ item_id <= 0
        IN  /\ daily_menu' = IF rejected THEN daily_menu ELSE done.table
            /\ menu_last' =
                   IF rejected
                   THEN MenuCall("delete_menu_item", item_id, menu_date, 0,
                                 "not_called", "ValueError", 0)
                   ELSE MenuCall("delete_menu_item", item_id, menu_date, 0,
                                 done.returned, "ok", 0)
            /\ UNCHANGED <<products, product_last, http_last, orders,
                           order_items, tx, order_last, chatVars, turns,
                           decreases>>

\* DailyMenuService.delete_menu_by_id -> DailyMenuRepository.delete.
DeleteMenuById ==
    \E menu_id \in MenuIds :
        LET done == DeleteMenuRows(daily_menu,
                                   {r \in daily_menu : r.id = menu_id})
        IN  /\ daily_menu' = IF menu_id <= 0 THEN daily_menu ELSE done.table
            /\ menu_last' =
                   IF menu_id <= 0
                   THEN MenuCall("delete_menu_by_id", 0, 0, 0, "not_called",
                                 "ValueError", 0)
                   ELSE MenuCall("delete_menu_by_id", 0, 0, 0, done.returned,
                                 "ok", 0)
            /\ UNCHANGED <<products, product_last, http_last, orders,
                           order_items, tx, order_last, chatVars, turns,
                           decreases>>

\* DailyMenuService.delete_menu_by_date -> DailyMenuRepository.delete_by_date.
DeleteMenuByDate ==
    \E menu_date \in MenuDates :
        LET done == DeleteMenuRows(daily_menu,
                                   {r \in daily_menu : r.menu_date = menu_date})
        IN  /\ daily_menu' = IF menu_date < Today THEN daily_menu
                             ELSE done.table
            /\ menu_last' =
                   IF menu_date < Today
                   THEN MenuCall("delete_menu_by_date", 0, menu_date, 0,
                                 "not_called", "ValueError", 0)
                   ELSE MenuCall("delete_menu_by_date", 0, menu_date, 0,
                                 done.returned, "ok", 0)
            /\ UNCHANGED <<products, product_last, http_last, orders,
                           order_items, tx, order_last, chatVars, turns,
                           decreases>>

(***************************************************************************)
(* decrease_stock calls that run concurrently, each on a session of its    *)
(* own: the SELECT of the entry is one statement, the UPDATE with the      *)
(* stock computed from the value read and its commit are a later one.      *)
(***************************************************************************)
DecreaseCalls == {"d1", "d2"}

IdleDecrease ==
    [pc |-> "idle", product_id |-> 0, menu_date |-> 0, quantity |-> 0,
     menu_id |-> 0, stock |-> 0, status |-> "none"]

\* menu_item.stock -= quantity; commit(): the session writes the stock it
\* computed from the value it read, UPDATE dailymenu SET stock = ... WHERE id.
DecreaseStockRow(table, menu_id, stock, quantity) ==
    {IF r.id = menu_id THEN [r EXCEPT !.stock = stock - quantity] ELSE r :
        r \in table}

\* DailyMenuService.decrease_stock up to the repository's test of the stock
\* it read.
DecreaseRead(c) ==
    \E product_id \in MenuProductIds, menu_date \in MenuDates,
       quantity \in Quantities :
        LET got == GetMenuItem(daily_menu, product_id, menu_date)
            call == [IdleDecrease EXCEPT !.product_id = product_id,
                                         !.menu_date = menu_date,
                                         !.quantity = quantity]
        IN  /\ decreases[c].pc = "idle"
            /\ decreases' =
                   [decreases EXCEPT ![c] =
                       IF quantity <= 0
                       THEN [call EXCEPT !.pc = "done", !.status = "ValueError"]
                       ELSE IF got.kind = "multiple"
                       THEN [call EXCEPT !.pc = "done",
                                         !.status = "MultipleResultsFound"]
                       ELSE IF got.kind = "none" \/ got.row.stock < quantity
                       THEN [call EXCEPT !.pc = "done", !.status = "ValueError"]
                       ELSE [call EXCEPT !.pc = "read", !.menu_id = got.row.id,
                                         !.stock = got.row.stock]]
            /\ UNCHANGED <<daily_menu, menu_last, products, product_last,
                           http_last, orders, order_items, tx, order_last,
                           chatVars, turns>>

\* The write of the decreased stock, its commit, and the DTO returned.
DecreaseWrite(c) ==
    /\ decreases[c].pc = "read"
    /\ daily_menu' = DecreaseStockRow(daily_menu, decreases[c].menu_id,
                                      decreases[c].stock,
                                      decreases[c].quantity)
    /\ decreases' = [decreases EXCEPT ![c].pc = "done", ![c].status = "ok"]
    /\ UNCHANGED <<menu_last, products, product_last, http_last, orders,
                   order_items, tx, order_last, chatVars, turns>>

(***************************************************************************)
(* Agent orchestrator: CustomerServiceAgent.get_agent_response, one record *)
(* per call.  pc is the await the call has reached:                        *)
(*   idle        not called yet                                            *)
(*   context     products listed, message embedded, similar products found *)
(*   running     history loaded, agent.run in progress                     *)
(*   ran         agent.run returned; save_conversation not yet entered     *)
(*   save_insert get_or_create found no session and is about to insert one *)
(*   save_write  get_or_create has its session; the write is next          *)
(*   returned    response.output returned                                  *)
(*   raised      an exception left get_agent_response (error: the stage)   *)
(* The similarity search of the context reads the product table, so a turn  *)
(* gets past it only while the search has no row to convert.                *)
(***************************************************************************)
Turns == {"t1", "t2", "t3"}
AgentPhones == {"56911", BlankPhone}

\* The order the LLM passes to the tool: schema-validated, so never empty.
AgentItemLists ==
    {<<[product_id |-> id, quantity |-> 1, price_per_unit |-> 2]>> :
        id \in ProductIds}

AgentOrderDTOs ==
    [customer_phone : OrderPhones, total_amount : {2}, items : AgentItemLists]

\* The session a phone may hold before the turns start.
EarlierHistory ==
    ToJsonablePython(<<Msg("user", NoParts), Msg("assistant", NoParts)>>)

\* A stored session one message longer than get_history's limit.
LongerHistory ==
    ToJsonablePython(Repeat(<<Msg("user", NoParts), Msg("assistant", NoParts)>>,
                            DefaultMaxMessages + 1))

IdleTurn ==
    [pc |-> "idle", phone |-> "", history |-> <<>>, new_messages |-> <<>>,
     tool_calls |-> 0, failed_creates |-> 0, chat_id |-> 0, error |-> "none"]

\* The messages agent.run adds (response.new_messages()).
UserPrompt(t) == Msg("user", [turn |-> t, result |-> "none", code |-> "none"])
ToolCallMsg(t) ==
    Msg("assistant", [turn |-> t, result |-> "call", code |-> "none"])
ToolReturnMsg(t, text, code) ==
    Msg("tool", [turn |-> t, result |-> text, code |-> code])
FinalReply(t) ==
    Msg("assistant", [turn |-> t, result |-> "reply", code |-> "none"])

\* A tool that lets the exception of a failed creation through.
CreateOrderTool_Propagates(status) ==
    IF status = "ok" THEN [raised |-> FALSE, text |-> "created"]
    ELSE [raised |-> TRUE, text |-> "error"]

\* create_order_tool: "Pedido creado exitosamente..." or, for any Exception
\* of create_order, "Error al crear el pedido: ...".
CreateOrderTool(status) ==
    [raised |-> FALSE, text |-> IF status = "ok" THEN "created" ELSE "error"]

\* message_history + response.new_messages()
Transcript(turn) == turn.history \o turn.new_messages

\* The create_order_tool calls made so far, over all the turns.
ToolCallsMade ==
    Cardinality({c \in Turns \X (1..MaxToolCalls) :
                    c[2] <= turns[c[1]].tool_calls})

\* top_k of the orchestrator's similarity search.
AgentTopK == 5

\* product_vector_search(embedding of the message, top_k=5,
\* only_available=True): what it ends with.
AgentSearchStatus(prods, query) ==
    IF ServiceSearchCheck(query, AgentTopK) # "ok" THEN "ValueError"
    ELSE IF SearchRows(prods, query, AgentTopK, TRUE) = {<<>>} THEN "ok"
    ELSE SearchResult(CHOOSE rows \in SearchRows(prods, query, AgentTopK, TRUE) :
                          rows # <<>>).status

\* get_all_products, embed_query and product_vector_search returned.
TurnGatherContext(t) ==
    \E customer_phone \in AgentPhones, query \in QueryEmbeddings \ {<<>>} :
        /\ turns[t].pc = "idle"
        /\ AgentSearchStatus(products, query) = "ok"
        /\ turns' = [turns EXCEPT ![t].pc = "context",
                                  ![t].phone = customer_phone]
        /\ UNCHANGED <<chatVars, orderVars>>

\* A failed embedding call answered with a canned reply.
TurnContextFails_Fallback(t) ==
    \E customer_phone \in AgentPhones :
        /\ turns[t].pc = "idle"
        /\ turns' = [turns EXCEPT ![t].pc = "returned",
                                  ![t].error = "embedding",
                                  ![t].phone = customer_phone]
        /\ UNCHANGED <<chatVars, orderVars>>

\* embed_query raised: the exception leaves get_agent_response.
TurnContextFails(t) ==
    \E customer_phone \in AgentPhones :
        /\ turns[t].pc = "idle"
        /\ turns' = [turns EXCEPT ![t].pc = "raised",
                                  ![t].error = "embedding",
                                  ![t].phone = customer_phone]
        /\ UNCHANGED <<chatVars, orderVars>>

\* product_vector_search raised: the exception leaves get_agent_response.
TurnSearchFails(t) ==
    \E customer_phone \in AgentPhones, query \in QueryEmbeddings \ {<<>>} :
        /\ turns[t].pc = "idle"
        /\ AgentSearchStatus(products, query) # "ok"
        /\ turns' = [turns EXCEPT ![t].pc = "raised", ![t].error = "search",
                                  ![t].phone = customer_phone]
        /\ UNCHANGED <<chatVars, orderVars>>

\* chat_service.get_history(customer_phone); agent.run starts with the user
\* prompt as its first new message.
TurnLoadHistory(t) ==
    LET got == ServiceGetHistory(chat_session, turns[t].phone,
                                 DefaultMaxMessages)
    IN  /\ turns[t].pc = "context"
        /\ turns' = IF got.status = "ok"
                    THEN [turns EXCEPT ![t].pc = "running",
                                       ![t].history = got.value,
                                       ![t].new_messages = <<UserPrompt(t)>>]
                    ELSE [turns EXCEPT ![t].pc = "raised",
                                       ![t].error = "history"]
        /\ UNCHANGED <<chatVars, orderVars>>

\* The LLM calls create_order_tool: the order store runs create_order and
\* the tool's answer goes back to the LLM.
TurnToolCall(t) ==
    \E order_data \in AgentOrderDTOs, order_code \in Codes :
        LET status == CreateStatus(orders, products, order_data, order_code)
            reached == CreateReachesCommit(orders, order_data, order_code)
            tool == CreateOrderTool(status)
        IN  /\ turns[t].pc = "running"
            /\ ToolCallsMade < MaxToolCalls
            /\ orders' = IF reached
                         THEN OrdersAfterCommit(orders, products, order_data,
                                                order_code)
                         ELSE orders
            /\ order_items' = IF reached
                              THEN ItemsAfterCommit(orders, order_items,
                                                    products, order_data)
                              ELSE order_items
            /\ turns' =
                   IF tool.raised
                   THEN [turns EXCEPT ![t].pc = "raised", ![t].error = "tool"]
                   ELSE [turns EXCEPT
                           ![t].tool_calls = @ + 1,
                           ![t].failed_creates =
                               IF status = "ok" THEN @ ELSE @ + 1,
                           ![t].new_messages =
                               @ \o <<ToolCallMsg(t),
                                      ToolReturnMsg(t, tool.text,
                                                    IF status = "ok"
                                                    THEN order_code
                                                    ELSE "none")>>]
            /\ UNCHANGED <<catalogVars, tx, order_last, chatVars>>

\* A turn that returns the reply of agent.run without saving.
TurnLLMFinish_ReturnsUnsaved(t) ==
    /\ turns[t].pc = "running"
    /\ turns' = [turns EXCEPT ![t].pc = "returned",
                              ![t].new_messages = @ \o <<FinalReply(t)>>]
    /\ UNCHANGED <<chatVars, orderVars>>

\* agent.run returns the final reply.
TurnLLMFinish(t) ==
    /\ turns[t].pc = "running"
    /\ turns' = [turns EXCEPT ![t].pc = "ran",
                              ![t].new_messages = @ \o <<FinalReply(t)>>]
    /\ UNCHANGED <<chatVars, orderVars>>

\* A failed LLM call answered with a canned reply.
TurnLLMFails_Fallback(t) ==
    /\ turns[t].pc = "running"
    /\ turns' = [turns EXCEPT ![t].pc = "returned", ![t].error = "llm"]
    /\ UNCHANGED <<chatVars, orderVars>>

\* A failed LLM call that stores the messages gathered so far.
TurnLLMFails_SavesPartial(t) ==
    /\ turns[t].pc = "running"
    /\ chat_session' =
           {IF r.user_phone = turns[t].phone
            THEN [r EXCEPT !.history = ToJsonablePython(Transcript(turns[t]))]
            ELSE r : r \in chat_session}
    /\ turns' = [turns EXCEPT ![t].pc = "raised", ![t].error = "llm"]
    /\ UNCHANGED <<chat_last, orderVars>>

\* The LLM call raised: the exception leaves get_agent_response.
TurnLLMFails(t) ==
    /\ turns[t].pc = "running"
    /\ turns' = [turns EXCEPT ![t].pc = "raised", ![t].error = "llm"]
    /\ UNCHANGED <<chatVars, orderVars>>

\* chat_service.save_conversation: its validation, then get_or_create's
\* get_by_phone.
TurnSaveGet(t) ==
    LET check == ServiceSaveCheck(turns[t].phone, Transcript(turns[t]))
        got == GetByPhone(chat_session, turns[t].phone)
    IN  /\ turns[t].pc = "ran"
        /\ turns' =
               IF check # "ok" \/ got.kind = "multiple"
               THEN [turns EXCEPT ![t].pc = "raised", ![t].error = "save"]
               ELSE IF got.kind = "none"
                    THEN [turns EXCEPT ![t].pc = "save_insert"]
                    ELSE [turns EXCEPT ![t].pc = "save_write",
                                       ![t].chat_id = got.row.id]
        /\ UNCHANGED <<chatVars, orderVars>>

\* get_or_create: session.add(chat); commit(); refresh(chat).
TurnSaveInsert(t) ==
    /\ turns[t].pc = "save_insert"
    /\ chat_session' = InsertChat(chat_session, turns[t].phone)
    /\ turns' = [turns EXCEPT ![t].pc = "save_write",
                              ![t].chat_id = NextChatId(chat_session)]
    /\ UNCHANGED <<chat_last, orderVars>>

\* chat.history = to_jsonable_python(messages); commit(); the reply returns.
TurnSaveWrite(t) ==
    /\ turns[t].pc = "save_write"
    /\ chat_session' = WriteHistory(chat_session, turns[t].chat_id,
                                    Transcript(turns[t]))
    /\ turns' = [turns EXCEPT ![t].pc = "returned"]
    /\ UNCHANGED <<chat_last, orderVars>>

(***************************************************************************)
(* Specifications.                                                         *)
(***************************************************************************)
InitChatTable == chat_session = {} /\ chat_last = NoChatCall

InitOrderTables ==
    /\ orders = <<>>
    /\ order_items = <<>>
    /\ products = InitProducts
    /\ product_last = NoProductCall
    /\ daily_menu = {}
    /\ menu_last = NoMenuCall
    /\ decreases = [c \in DecreaseCalls |-> IdleDecrease]
    /\ http_last = NoHttpCall
    /\ tx = NoTx
    /\ order_last = NoOrderCall

InitTurns == turns = [t \in Turns |-> IdleTurn]

Init == InitChatTable /\ InitOrderTables /\ InitTurns

\* The conversation store called at the repository, one call at a time.
NextChat ==
    \/ RepoSaveConversation(Phones, ShortLists)
    \/ RepoGetHistoryCall(Phones, ShortMaxes)
    \/ DeleteSession(Phones)

SpecChat == Init /\ [][NextChat]_vars

\* The conversation store called through ChatService and at the repository,
\* with message lists on both sides of the service's cap.
NextChatService ==
    \/ ServiceSaveConversation(ServicePhones \cup {BlankPhone}, ServiceLists)
    \/ ServiceGetHistoryCall(ServicePhones \cup {BlankPhone}, ServiceMaxes)
    \/ RepoSaveConversation(ServicePhones, ServiceLists)
    \/ RepoGetHistoryCall(ServicePhones, ServiceMaxes)

SpecChatService == Init /\ [][NextChatService]_vars

\* The order store, one call at a time.
NextOrder ==
    \/ CreateOrder(CreateOrderDTOs)
    \/ UpdateOrderItems(Codes \cup {BlankCode}, ItemLists)

SpecOrder == Init /\ [][NextOrder]_vars

\* The order store with create's flush and commit as separate steps, other
\* calls running in between.
NextCreate ==
    \/ CreateFlush(TxOrderDTOs)
    \/ CreateCommit
    \/ CreateOrder(TxOrderDTOs)
    \/ UpdateOrderItems(Codes, TxItemLists)

SpecCreate == Init /\ [][NextCreate]_vars

\* Orders created, their status updated and orders deleted, one call at a
\* time.
NextStatus ==
    \/ CreateOrder(TxOrderDTOs)
    \/ UpdateOrderStatus(Codes \cup {BlankCode}, NewStatuses)
    \/ DeleteOrder(Codes \cup {BlankCode})

SpecStatus == Init /\ [][NextStatus]_vars

\* The product catalogue and the orders that reference it, one call at a
\* time.
NextCatalog ==
    \/ UpdateProductAvailability
    \/ UpdateProductData
    \/ ProductVectorSearch
    \/ CreateOrder(TxOrderDTOs)

SpecCatalog == Init /\ [][NextCatalog]_vars

\* Requests to the product and order routes, one at a time, with orders
\* created at the service.
NextHttp ==
    \/ HttpGetProductById
    \/ HttpUpdateProductAvailability
    \/ HttpUpdateProductData
    \/ HttpGetOrderById
    \/ HttpUpdateOrderStatus
    \/ CreateOrder(AgentOrderDTOs)

SpecHttp == Init /\ [][NextHttp]_vars

\* The daily menu called through DailyMenuService, one call at a time.
NextMenu ==
    \/ AddMenuItem
    \/ UpdateStock
    \/ DecreaseStock

SpecMenu == Init /\ [][NextMenu]_vars

\* Every operation of DailyMenuService, one call at a time.
NextMenuOps ==
    \/ NextMenu
    \/ DeleteMenuItem
    \/ DeleteMenuById
    \/ DeleteMenuByDate

SpecMenuOps == Init /\ [][NextMenuOps]_vars

\* Menu entries added, with a stock of at most MaxStock, and decrease_stock
\* calls that interleave.
NextDecrease ==
    \/ AddMenuItem
    \/ \E c \in DecreaseCalls :
        \/ DecreaseRead(c)
        \/ DecreaseWrite(c)

SpecDecrease == Init /\ [][NextDecrease]_vars

\* Agent turns running concurrently, for a customer with no session, with a
\* short one or with one longer than get_history's limit, with the one
\* product on sale or withdrawn.
InitAgent ==
    /\ chat_session \in
           {{}, {[id |-> 1, user_phone |-> "56911", history |-> EarlierHistory]},
            {[id |-> 1, user_phone |-> "56911", history |-> LongerHistory]}}
    /\ chat_last = NoChatCall
    /\ orders = <<>>
    /\ order_items = <<>>
    /\ products \in {InitProducts,
                     ProductsAfterAvailability(InitProducts, 1, FALSE)}
    /\ product_last = NoProductCall
    /\ daily_menu = {}
    /\ menu_last = NoMenuCall
    /\ decreases = [c \in DecreaseCalls |-> IdleDecrease]
    /\ http_last = NoHttpCall
    /\ tx = NoTx
    /\ order_last = NoOrderCall
    /\ InitTurns

NextAgent ==
    \E t \in Turns :
        \/ TurnGatherContext(t)
        \/ TurnContextFails(t)
        \/ TurnSearchFails(t)
        \/ TurnLoadHistory(t)
        \/ TurnToolCall(t)
        \/ TurnLLMFinish(t)
        \/ TurnLLMFails(t)
        \/ TurnSaveGet(t)
        \/ TurnSaveInsert(t)
        \/ TurnSaveWrite(t)

SpecAgent == InitAgent /\ [][NextAgent]_vars

(***************************************************************************)
(* Properties of the conversation store.                                   *)
(***************************************************************************)
OtherPhones(p) == Phones \ {p}

\* C2: get_history(phone, max) never returns a sequence whose first element
\* has a role other than "user" when the stored history is longer than max.
C2_TruncatedStartsWithUser ==
    LET got == GetByPhone(chat_session, chat_last.phone)
    IN  ( /\ chat_last.op = "get_history"
          /\ chat_last.result.status = "ok"
          /\ got.kind = "row"
          /\ Len(got.row.history) > chat_last.max
          /\ chat_last.result.value # <<>> )
        => chat_last.result.value[1][1] = "user"

\* C9: get_history(phone, max) returns the empty sequence when no session
\* exists for phone, and the full stored history, same elements in the same
\* order, when its length is <= max.
C9_FullHistoryWithinMax ==
    LET got == GetByPhone(chat_session, chat_last.phone)
    IN  (chat_last.op = "get_history" /\ chat_last.layer = "repo")
        => /\ got.kind = "none" => chat_last.result = Ok(<<>>)
           /\ (got.kind = "row" /\ Len(got.row.history) <= chat_last.max)
              => /\ chat_last.result.status = "ok"
                 /\ ToJsonablePython(chat_last.result.value) = got.row.history

\* C9's case: a history exactly max long that starts with a non-user message
\* was read.
C9_Witness ==
    LET got == GetByPhone(chat_session, chat_last.phone)
    IN  /\ chat_last.op = "get_history"
        /\ chat_last.layer = "repo"
        /\ got.kind = "row"
        /\ Len(got.row.history) = chat_last.max
        /\ chat_last.max >= 2
        /\ got.row.history[1].role # "user"

\* C10: save_conversation(phone, L) creates the session if none exists and
\* replaces the stored history: afterwards exactly one session of phone
\* exists, its history is exactly L, and the sessions of the other phones are
\* what they were.
C10_SaveReplaces ==
    [][ (chat_last'.op = "save" /\ chat_last'.result.status = "ok")
        => LET p == chat_last'.phone
               got == GetByPhone(chat_session', p)
           IN  /\ got.kind = "row"
               /\ ValidatePython(got.row.history) = chat_last'.msgs
               /\ \A q \in OtherPhones(p) :
                      ChatRowsOf(chat_session', q) = ChatRowsOf(chat_session, q)
      ]_vars

\* C10's case: a save of a one-message list went through while another phone
\* holds a longer history.
C10_Witness ==
    /\ chat_last.op = "save"
    /\ chat_last.result.status = "ok"
    /\ Len(chat_last.msgs) = 1
    /\ GetByPhone(chat_session, chat_last.phone).kind = "row"
    /\ \E q \in OtherPhones(chat_last.phone) :
           /\ GetByPhone(chat_session, q).kind = "row"
           /\ Len(GetByPhone(chat_session, q).row.history) >= 2

\* A save_conversation(phone, M) that succeeded, followed immediately by
\* get_history(phone, len(M)).
SaveThenGet ==
    /\ chat_last.op = "save"
    /\ chat_last.result.status = "ok"
    /\ chat_last'.op = "get_history"
    /\ chat_last'.phone = chat_last.phone
    /\ chat_last'.max = Len(chat_last.msgs)

\* C3 as stated: save_conversation(phone, M) followed immediately by
\* get_history(phone, len(M)) returns exactly M, through ChatService as well
\* as at the repository.
C3_RoundTrip ==
    [][ SaveThenGet => chat_last'.result = Ok(chat_last.msgs) ]_vars

\* C3 as amended: the round trip returns exactly M at the repository for
\* every M, and through ChatService.get_history for every M of at most 20
\* messages.
C3_RoundTripWithinCap ==
    [][ ( /\ SaveThenGet
          /\ \/ chat_last'.layer = "repo"
             \/ Len(chat_last.msgs) <= HistoryCap )
        => chat_last'.result = Ok(chat_last.msgs) ]_vars

\* C3's case: ChatService.get_history asked for 20 messages returned a
\* stored history of exactly 20.
C3_Witness ==
    LET got == GetByPhone(chat_session, chat_last.phone)
    IN  /\ chat_last.op = "get_history"
        /\ chat_last.layer = "service"
        /\ chat_last.max = HistoryCap
        /\ got.kind = "row"
        /\ Len(got.row.history) = HistoryCap
        /\ Len(chat_last.result.value) = HistoryCap
        /\ chat_last.result.value[1][1] # "user"

(***************************************************************************)
(* Properties of the order store.                                          *)
(***************************************************************************)
\* C1: an order created with items I is persisted with
\* total_amount = sum(quantity * price_per_unit) over I, whatever
\* total_amount the caller's DTO carries.
C1_CreatedTotalIsItemsSum ==
    (order_last.op = "create" /\ order_last.status = "ok")
    => orders[OrderIdByCode(orders, order_last.order_code)].total_amount
           = ItemsTotal(order_last.items)

\* C4: after update_items on an existing order the persisted item rows of
\* the order are exactly the new items and the persisted total_amount is
\* their sum.
C4_UpdateItemsReplacesAndRetotals ==
    (order_last.op = "update_items" /\ order_last.committed)
    => LET id == OrderIdByCode(orders, order_last.order_code)
       IN  /\ RowItems(ItemRowsOf(order_items, id)) = order_last.items
           /\ orders[id].total_amount = ItemsTotal(order_last.items)

\* C5: order creation is atomic.  A step that adds an order row adds exactly
\* one, by a create that succeeded, together with all the items of its DTO;
\* item rows change only with such a step or by update_items; a create that
\* failed leaves both tables as they were.
C5_CreateAtomic ==
    [][ /\ Len(orders') > Len(orders)
           => /\ Len(orders') = Len(orders) + 1
              /\ order_last'.op = "create"
              /\ order_last'.status = "ok"
              /\ order_last'.items # <<>>
              /\ RowItems(ItemRowsOf(order_items', Len(orders')))
                     = order_last'.items
        /\ order_items' # order_items
           => Len(orders') > Len(orders) \/ order_last'.op = "update_items"
        /\ (order_last'.op = "create" /\ ~order_last'.committed)
           => orders' = orders /\ order_items' = order_items
      ]_vars

\* C5's case: with no order stored yet (so no code in use), a create got past
\* its flush and failed at commit, on the item of the missing product.
C5_Witness ==
    /\ order_last.op = "create"
    /\ order_last.status = "IntegrityError"
    /\ orders = <<>>
    /\ order_items = <<>>
    /\ ~tx.open

(***************************************************************************)
(* Properties of the agent orchestrator.                                   *)
(***************************************************************************)
\* The messages of turn t are in the message list.
HasMessagesOf(messages, t) ==
    \E i \in 1..Len(messages) : messages[i][2].turn = t

\* Two turns of one customer ran concurrently and both returned: neither
\* loaded a history holding the other's messages, and no third turn of the
\* customer has entered its save.
RacedTurns(t, u) ==
    /\ t # u
    /\ turns[t].pc = "returned"
    /\ turns[u].pc = "returned"
    /\ turns[t].phone = turns[u].phone
    /\ ~HasMessagesOf(turns[t].history, u)
    /\ ~HasMessagesOf(turns[u].history, t)
    /\ \A v \in Turns \ {t, u} :
           \/ turns[v].phone # turns[t].phone
           \/ turns[v].pc \in {"idle", "context", "running", "ran", "raised"}

\* C6: when two turns for the same phone run concurrently, the last save to
\* commit wins: the phone's stored history is the transcript of one of the
\* two turns, with the new messages of that turn only.
C6_LastSaveWins ==
    \A t, u \in Turns :
        RacedTurns(t, u)
        => LET got == GetByPhone(chat_session, turns[t].phone)
           IN  /\ got.kind = "row"
               /\ \E w \in {t, u} :
                      /\ ValidatePython(got.row.history) = Transcript(turns[w])
                      /\ ~HasMessagesOf(ValidatePython(got.row.history),
                                        CHOOSE x \in {t, u} : x # w)

\* C7: every turn whose LLM run completed persists its transcript: none ends
\* with the exception of a save_conversation that did not save.
C7_TranscriptSaved ==
    \A t \in Turns : ~(turns[t].pc = "raised" /\ turns[t].error = "save")

\* The tool returns of turn t that report a failed creation.
ErrorReturns(t) ==
    {i \in 1..Len(turns[t].new_messages) :
        /\ turns[t].new_messages[i][1] = "tool"
        /\ turns[t].new_messages[i][2].result = "error"}

\* C8: an exception of order creation inside the tool never leaves the tool:
\* no turn is aborted by it, and each failed creation is in the run's
\* messages as a tool return with the error text.
C8_ToolCatchesCreateError ==
    \A t \in Turns :
        /\ turns[t].error # "tool"
        /\ turns[t].pc # "raised"
           => Cardinality(ErrorReturns(t)) = turns[t].failed_creates

\* C8's case: a turn whose order creation failed went on and returned.
C8_Witness ==
    \E t \in Turns :
        /\ turns[t].pc = "returned"
        /\ turns[t].failed_creates > 0
        /\ ErrorReturns(t) # {}

(***************************************************************************)
(* Properties of the daily menu.                                           *)
(***************************************************************************)
\* The decrease_stock call of this step asks the entry of (product, date),
\* which holds stock s, for quantity q.
DecreaseOf(s, q) ==
    LET got == GetMenuItem(daily_menu, menu_last'.product_id,
                           menu_last'.menu_date)
    IN  /\ menu_last'.op = "decrease_stock"
        /\ menu_last'.quantity = q
        /\ got.kind = "row"
        /\ got.row.stock = s

\* C11: decreasing the stock of (product, date) by more than the entry holds
\* changes no entry and signals not-found: the repository returns None and
\* the service raises.  With several entries for (product, date), none of
\* which holds the quantity, the call fails too and changes nothing.
C11_DecreaseBeyondStockIsNoOp ==
    [][ /\ \A s \in 0..MaxStock, q \in Quantities :
               (DecreaseOf(s, q) /\ q > s)
               => /\ menu_last'.returned = "none"
                  /\ menu_last'.status = "ValueError"
                  /\ daily_menu' = daily_menu
        /\ ( /\ menu_last'.op = "decrease_stock"
             /\ MenuRowsOf(daily_menu, menu_last'.product_id,
                           menu_last'.menu_date) # {}
             /\ \A r \in MenuRowsOf(daily_menu, menu_last'.product_id,
                                    menu_last'.menu_date) :
                    r.stock < menu_last'.quantity )
           => menu_last'.status # "ok" /\ daily_menu' = daily_menu
      ]_vars

\* C11's case: a decrease by 3 was refused on an entry holding 2 while another
\* entry holds stock.
C11_Witness ==
    LET got == GetMenuItem(daily_menu, menu_last.product_id,
                           menu_last.menu_date)
    IN  /\ menu_last.op = "decrease_stock"
        /\ menu_last.returned = "none"
        /\ menu_last.quantity = 3
        /\ got.kind = "row"
        /\ got.row.stock = 2
        /\ \E r \in daily_menu : r # got.row /\ r.stock > 0

C13_UpdateStatusOfMissingOrder ==
    [][ ( /\ order_last'.op = "update_status"
          /\ OrderIdByCode(orders, order_last'.order_code) = 0 )
        => /\ orders' = orders
           /\ order_items' = order_items
           /\ order_last'.status \in {"LookupError", "ValueError"}
           /\ ServiceUpdateStatusCheck(order_last'.order_code,
                                       order_last'.new_status) = "ok"
              => order_last'.status = "LookupError"
      ]_vars

\* C13's case: with one order stored, update_status was called with a valid
\* status for the code no order has.
C13_Witness ==
    /\ order_last.op = "update_status"
    /\ order_last.status = "LookupError"
    /\ order_last.new_status = "delivered"
    /\ Len(orders) = 1
    /\ OrderIdByCode(orders, order_last.order_code) = 0

\* C14: update_status for an existing order overwrites the persisted status:
\* afterwards the order's stored status is the new status and
\* get_detail_by_code reports it.
C14_UpdateStatusOverwrites ==
    LET id == OrderIdByCode(orders, order_last.order_code)
    IN  ( /\ order_last.op = "update_status"
          /\ id # 0
          /\ ServiceUpdateStatusCheck(order_last.order_code,
                                      order_last.new_status) = "ok" )
        => /\ orders[id].status = order_last.new_status
           /\ GetDetailByCode(orders, order_items, products,
                              order_last.order_code).status
                  = order_last.new_status

\* The characters of generate_order_code's alphabet.
AlphabetChars == {SubSeq(Alphabet, i, i) : i \in 1..Len(Alphabet)}

\* A code of exactly CodeSize characters, each of [0-9a-z].
WellFormedCode(code) ==
    /\ Len(code) = CodeSize
    /\ \A i \in 1..Len(code) : SubSeq(code, i, i) \in AlphabetChars

\* C15: every order, when it is created, has status "pending" and a code of
\* exactly 6 characters of [0-9a-z], and no two persisted orders ever share a
\* code.
C15_NewOrderPendingWithUniqueCode ==
    [][ /\ Len(orders') > Len(orders)
           => /\ orders'[Len(orders')].status = "pending"
              /\ WellFormedCode(orders'[Len(orders')].order_code)
        /\ \A i, j \in 1..Len(orders') :
               i # j => orders'[i].order_code # orders'[j].order_code
      ]_vars

\* C15's case: both codes are taken by persisted orders and a further create,
\* which drew one of them again, was refused by the unique index.
C15_Witness ==
    /\ Len(orders) = 2
    /\ order_last.op = "create"
    /\ order_last.status = "IntegrityError"

(***************************************************************************)
(* Properties of the product catalogue.                                    *)
(***************************************************************************)
\* C16: a similarity search with only_available = true never yields a product
\* whose availability flag is false: neither the rows its statement selects
\* nor the results it returns hold one.
C16_SearchOnlyAvailable ==
    (product_last.op = "semantic_search" /\ product_last.only_available)
    => /\ \A i \in 1..Len(product_last.rows) : product_last.rows[i].available
       /\ \A i \in 1..Len(product_last.result) :
              product_last.result[i].available

\* C16's case: a search for available products selected a row while the table
\* holds an unavailable product that the limit had room for.
C16_Witness ==
    /\ product_last.op = "semantic_search"
    /\ product_last.only_available
    /\ product_last.rows # <<>>
    /\ Len(product_last.rows) < product_last.top_k
    /\ \E p \in products : ~p.available

(***************************************************************************)
(* Properties of the HTTP routes.                                          *)
(***************************************************************************)
\* C18: in the handlers for products and orders, a ValueError of the service
\* is answered with status 400 and a LookupError with status 404.
C18_ErrorStatusMapping ==
    /\ http_last.raised = "ValueError" => http_last.status_code = 400
    /\ http_last.raised = "LookupError" => http_last.status_code = 404

\* C19: a failure of the embedding call or of the LLM call leaves
\* get_agent_response as an exception: the turn that met it is raised, never
\* returned, it stays raised, and every returned turn carries the reply of
\* its LLM run (no substitute reply is produced for a failed call).
C19_FailurePropagates ==
    /\ [](\A t \in Turns :
           /\ turns[t].error \in {"embedding", "llm"} => turns[t].pc = "raised"
           /\ turns[t].pc \in {"ran", "save_insert", "save_write", "returned"} =>
                  /\ turns[t].error = "none"
                  /\ turns[t].new_messages # <<>>
                  /\ turns[t].new_messages[Len(turns[t].new_messages)]
                         = FinalReply(t))
    /\ [][\A t \in Turns :
              turns[t].pc = "raised" => turns'[t] = turns[t]]_vars

\* A turn whose LLM call failed and a turn whose embedding call failed, both
\* raised.
C19_Witness ==
    \E t, u \in Turns :
        /\ turns[t].pc = "raised" /\ turns[t].error = "llm"
        /\ turns[u].pc = "raised" /\ turns[u].error = "embedding"

(***************************************************************************)
(* Properties of order items against the product catalogue.               *)
(***************************************************************************)
\* The price_per_unit values get_detail_by_code reports for an order.
DetailPrices(ords, items, prods, order_code) ==
    LET detail == GetDetailByCode(ords, items, prods, order_code)
    IN  [i \in 1..Len(detail.items) |-> detail.items[i].price_per_unit]

C21_DeleteRemovesOrder ==
    [][order_last'.op = "delete" /\ order_last' # order_last
       /\ ~IsBlank(order_last'.order_code)
       => LET order_code == order_last'.order_code
              id == OrderIdByCode(orders, order_code)
          IN  IF id # 0
              THEN /\ order_last'.status = "True"
                   /\ ~GetByCode(orders', order_items', products',
                                 order_code).found
                   /\ \A i \in 1..Len(order_items') :
                          order_items'[i].order_id # id
              ELSE /\ order_last'.status = "False"
                   /\ orders' = orders
                   /\ order_items' = order_items]_vars

\* C22: after update_product_data has stored a name for a product, the
\* embedding stored with the product is the embedding of that name.
C22_EmbeddingRecomputed ==
    (product_last.op = "update_data" /\ product_last.status = "ok")
    => \A p \in ProductById(products, product_last.product_id) :
           p.embedding = EmbedQuery(p.name)

\* The steps of a turn in their order: each pair is a position of a turn and
\* a position that may follow it.
StepOrder ==
    {<<"idle", "context">>, <<"context", "running">>, <<"running", "ran">>,
     <<"ran", "save_insert">>, <<"ran", "save_write">>,
     <<"save_insert", "save_write">>, <<"save_write", "returned">>}
    \cup ({"idle", "context", "running", "ran"} \X {"raised"})

\* C23: the steps of a turn occur in a fixed order.  Context gathering and
\* the history load end before the LLM run starts, the order store is
\* written only by the tool call of a turn whose LLM run is under way, the
\* conversation store is written only by a turn whose LLM run has ended, and
\* a turn returns its reply only in the step that writes its transcript.
C23_StepsInOrder ==
    /\ [][\A t \in Turns :
              turns'[t].pc # turns[t].pc
              => <<turns[t].pc, turns'[t].pc>> \in StepOrder]_vars
    /\ [][(orders' # orders \/ order_items' # order_items)
          => \E t \in Turns :
                 /\ turns[t].pc = "running" /\ turns'[t].pc = "running"
                 /\ turns'[t].tool_calls = turns[t].tool_calls + 1]_vars
    /\ [][chat_session' # chat_session
          => \E t \in Turns :
                 /\ turns[t].pc \in {"save_insert", "save_write"}
                 /\ turns'[t].pc # turns[t].pc]_vars
    /\ [][\A t \in Turns :
              (turns'[t].pc = "returned" /\ turns[t].pc # "returned")
              => \E r \in chat_session' :
                     /\ r.id = turns[t].chat_id
                     /\ r.user_phone = turns[t].phone
                     /\ r.history = ToJsonablePython(Transcript(turns[t]))]_vars

\* C23's case: a turn that made a tool call which stored an order has saved
\* its conversation and returned.
C23_Witness ==
    \E t \in Turns :
        /\ turns[t].pc = "returned"
        /\ turns[t].tool_calls > turns[t].failed_creates
        /\ Len(orders) > 0

\* C24: at most one chat session is stored per customer phone, so
\* get_by_phone resolves to no session or to one.
C24_OneSessionPerPhone ==
    \A user_phone \in AgentPhones :
        /\ Cardinality(ChatRowsOf(chat_session, user_phone)) <= 1
        /\ GetByPhone(chat_session, user_phone).kind # "multiple"

\* The last n entries of a stored history.
LastEntries(history, n) ==
    SubSeq(history, Len(history) - n + 1, Len(history))

\* C25: for a stored history H and max >= 1, get_history returns a contiguous
\* suffix of H of at most max entries; when H is longer than max and its last
\* max entries hold a user entry, the result is those entries from the first
\* user entry on.
C25_HistoryIsSuffix ==
    LET got == GetByPhone(chat_session, chat_last.phone)
        H == got.row.history
        R == ToJsonablePython(chat_last.result.value)
        slice == LastEntries(H, chat_last.max)
        users == {i \in 1..Len(slice) : slice[i].role = "user"}
    IN  ( /\ chat_last.op = "get_history"
          /\ chat_last.layer = "repo"
          /\ chat_last.max >= 1
          /\ got.kind = "row" )
        => /\ chat_last.result.status = "ok"
           /\ Len(R) <= chat_last.max
           /\ Len(R) <= Len(H)
           /\ R = LastEntries(H, Len(R))
           /\ (Len(H) > chat_last.max /\ users # {})
              => \E i \in users :
                     /\ \A j \in users : i <= j
                     /\ R = SubSeq(slice, i, Len(slice))

\* C25's case: a history longer than max was read whose last max entries
\* start with an entry that is not a user's and hold a user entry, so fewer
\* than max entries were returned.
C25_Witness ==
    LET got == GetByPhone(chat_session, chat_last.phone)
        H == got.row.history
    IN  /\ chat_last.op = "get_history"
        /\ chat_last.layer = "repo"
        /\ got.kind = "row"
        /\ chat_last.max >= 2
        /\ Len(H) > chat_last.max
        /\ LastEntries(H, chat_last.max)[1].role # "user"
        /\ Len(chat_last.result.value) \in 1..(chat_last.max - 1)

\* The tool returns of turn t that report a stored order.
CreatedReturns(t) ==
    {i \in 1..Len(turns[t].new_messages) :
        /\ turns[t].new_messages[i][1] = "tool"
        /\ turns[t].new_messages[i][2].result = "created"}

\* C26: once a turn has ended, with its reply or with an error, every order
\* its create-order tool stored is recorded in the stored conversation of
\* the turn's phone: a session of the phone holds the tool return of the
\* order.
C26_OrdersRecordedInHistory ==
    \A t \in Turns :
        turns[t].pc \in {"returned", "raised"}
        => \A i \in CreatedReturns(t) :
               /\ OrderIdByCode(orders, turns[t].new_messages[i][2].code) # 0
               /\ \E r \in ChatRowsOf(chat_session, turns[t].phone) :
                      \E j \in 1..Len(r.history) :
                          ValidatePython(r.history)[j]
                              = turns[t].new_messages[i]

\* C27: a turn never removes stored messages: the save of a turn leaves, in
\* the session it writes, the history stored until then followed by the new
\* messages of the turn.
C27_TurnKeepsStoredMessages ==
    [][\A t \in Turns :
           (turns[t].pc = "save_write" /\ turns'[t].pc = "returned")
           => \A r \in chat_session :
                  r.id = turns[t].chat_id
                  => \E w \in chat_session' :
                         /\ w.id = r.id
                         /\ w.history =
                                r.history
                                    \o ToJsonablePython(turns[t].new_messages)]_vars

\* The quantities of the concurrent decrease_stock calls that succeeded on
\* the entry menu_id, summed.
RECURSIVE SucceededQuantity(_, _)
SucceededQuantity(calls, menu_id) ==
    IF calls = {} THEN 0
    ELSE LET c == CHOOSE x \in calls : TRUE
         IN  (IF /\ decreases[c].status = "ok"
                 /\ decreases[c].menu_id = menu_id
              THEN decreases[c].quantity ELSE 0)
             + SucceededQuantity(calls \ {c}, menu_id)

\* C28: however concurrent decrease_stock calls on one menu entry interleave,
\* the quantities of the calls that succeed sum to no more than the stock
\* the entry had before them (every entry here is added with a stock of at
\* most MaxStock and only decreased).
C28_NoOverselling ==
    \A r \in daily_menu :
        SucceededQuantity(DecreaseCalls, r.id) <= MaxStock

\* The last call was turned down by the service's validation of its
\* argument: a stock <= 0 on add, a negative new_stock, a quantity <= 0.
RejectedByValidation(call) ==
    \/ call.op = "add_menu_item" /\ call.quantity <= 0
    \/ call.op = "update_stock" /\ call.quantity < 0
    \/ call.op = "decrease_stock" /\ call.quantity <= 0

\* C29: with the operations of DailyMenuService run one at a time, every
\* stored menu entry has stock >= 0, every entry is created with stock > 0,
\* and an operation turned down by validation raises and leaves the entries
\* as they were.
C29_MenuStockNeverNegative ==
    /\ [](\A r \in daily_menu : r.stock >= 0)
    /\ [][\A r \in daily_menu' :
              (\A o \in daily_menu : o.id # r.id) => r.stock > 0]_vars
    /\ [][(menu_last' # menu_last /\ RejectedByValidation(menu_last'))
          => /\ daily_menu' = daily_menu
             /\ menu_last'.status = "ValueError"]_vars

\* C29's case: an entry's stock has come down to 0, an entry was deleted
\* before, and the last call, an update_stock with a negative stock, was
\* turned down.
C29_Witness ==
    /\ menu_last.op = "update_stock"
    /\ menu_last.quantity < 0
    /\ menu_last.status = "ValueError"
    /\ \E r \in daily_menu : r.stock = 0 /\ r.id > 1
    /\ \A r \in daily_menu : r.id # 1

\* The errors of a turn before its save: of the embedding call, of the
\* similarity search, of the history load and of the LLM run.
ErrorsBeforeSave == {"embedding", "search", "history", "llm"}

\* C30: a turn that ends with an error of the embedding call, the similarity
\* search, the history load or the LLM run performs no save: it never entered
\* save_conversation, and none of its steps up to and including the one that
\* raised changed a stored conversation.
C30_NoSaveAfterFailure ==
    /\ [](\A t \in Turns :
              turns[t].error \in ErrorsBeforeSave
              => turns[t].pc = "raised" /\ turns[t].chat_id = 0)
    /\ [][\A t \in Turns :
              ( /\ turns'[t] # turns[t]
                /\ \/ turns'[t].pc \in {"context", "running"}
                   \/ turns'[t].error \in ErrorsBeforeSave )
              => chat_session' = chat_session]_vars

\* C30's case: with a conversation stored, a turn whose tool had stored an
\* order ended with the LLM's error and another with the embedding's.
C30_Witness ==
    \E t, u \in Turns :
        /\ turns[t].pc = "raised" /\ turns[t].error = "llm"
        /\ turns[t].tool_calls > turns[t].failed_creates
        /\ turns[u].pc = "raised" /\ turns[u].error = "embedding"
        /\ \E r \in ChatRowsOf(chat_session, turns[t].phone) :
               r.history # <<>>

====
